---- MODULE Spec2Model ----
\* A model of src/src/databricks_client.py: the DatabricksClient wrapper and the
\* SQL-result normalisation inside execute_sql_query.
\*
\* Python values are modelled as follows.
\*   dict            a sequence of <<key, value>> pairs in insertion order
\*   list            a sequence
\*   None            the string None, or a `kind`/`attr` tag saying so
\*   an exception    a record field `raised`/`escaped` set to TRUE
\* The vendor SDK is the environment: the record `sdk` fixes what every SDK
\* call answers (or that it raises) for the lifetime of a behaviour.
EXTENDS Integers, Sequences, FiniteSets, TLC

VARIABLES sdk, lastOp, ret, calls, local

vars == <<sdk, lastOp, ret, calls, local>>

\* ---------------------------------------------------------------- bounds
MaxRows == 2
MaxArity == 2
MaxCols == 2

\* ---------------------------------------------------------------- helpers
None == "None"

SeqsUpTo(S, n) == UNION {[1..k -> S] : k \in 0..n}

Range(s) == {s[i] : i \in 1..Len(s)}

\* ------------------------------------------------------- the result object
\* A column object of a schema is modelled by its name; NoNameAttr is a column
\* object on which `col.name` raises AttributeError.
NoNameAttr == "<no name attribute>"

Names == {"id", "col_1"}

Cols == Names \cup {NoNameAttr}

ColumnLists == SeqsUpTo(Cols, MaxCols)

\* statement.result.schema: the attribute is missing, is None, or is a schema
\* object whose .columns is a list of column objects.
DirectSchemas ==
  {[attr |-> a, columns |-> <<>>] : a \in {"missing", "none"}}
    \cup {[attr |-> "set", columns |-> c] : c \in ColumnLists}

\* statement.result.manifest: the attribute is missing, is None, is an object
\* without a `schema` attribute, is an object whose .schema is None, or is an
\* object whose .schema.columns is a list of column objects.
Manifests ==
  {[attr |-> a, columns |-> <<>>] :
      a \in {"missing", "none", "no_schema", "schema_none"}}
    \cup {[attr |-> "set", columns |-> c] : c \in ColumnLists}

\* The scalar in row r, position p (both 1-based). The code never inspects a
\* value, so all cells carry distinct values: any mix-up of rows or positions
\* then shows in the output.
Cell(r, p) == <<r, p>>

\* A row is a list of scalars, or an object that cannot be iterated (None).
RowShapes == (0..MaxArity) \cup {-1}

MakeRow(r, shape) ==
  IF shape = -1 THEN [iterable |-> FALSE, vals |-> <<>>]
  ELSE [iterable |-> TRUE, vals |-> [p \in 1..shape |-> Cell(r, p)]]

DataArrays ==
  {[r \in 1..Len(shapes) |-> MakeRow(r, shapes[r])] :
      shapes \in SeqsUpTo(RowShapes, MaxRows)}

NoSchema == [attr |-> "missing", columns |-> <<>>]

\* The manifests tried next to a supplied result.schema: the code never
\* reads result.manifest then, so those of at most one column suffice.
ManifestsBesideSchema == {m \in Manifests : Len(m.columns) <= 1}

\* statement.result: None, an object whose data_array is None, or an object
\* with a data_array list and the two schema locations.
ResultNone ==
  [kind |-> "none", data_array |-> <<>>, schema |-> NoSchema, manifest |-> NoSchema]

ResultKinds == {"none", "no_data", "data"}

ResultOf(kind, data_array, schema, manifest) ==
  [kind |-> kind, data_array |-> data_array, schema |-> schema,
   manifest |-> manifest]

\* The result objects tried: without a data_array list there is no row, and
\* the metadata is not read.
ResultShape(kind, data_array, schema, manifest) ==
  /\ kind # "data" => (data_array = <<>> /\ manifest = NoSchema)
  /\ kind = "none" => schema = NoSchema
  /\ schema.attr = "set" => manifest \in ManifestsBesideSchema

\* ------------------------------------------------------------ normalisation
\* f"col_{i}" for the 0-based position i.
\* Variant: positions numbered from 1.
ColNameOneBased(i) == "col_" \o ToString(i + 1)

ColName(i) == "col_" \o ToString(i)

\* row_dict[column_name] = value on a Python dict: an existing key keeps its
\* place and takes the new value, a new key is appended.
DictSet(d, k, v) ==
  IF \E j \in 1..Len(d) : d[j][1] = k
    THEN [j \in 1..Len(d) |-> IF d[j][1] = k THEN <<k, v>> ELSE d[j]]
    ELSE Append(d, <<k, v>>)

DictKeys(d) == [j \in 1..Len(d) |-> d[j][1]]

DictValues(d) == [j \in 1..Len(d) |-> d[j][2]]

\* [col.name for col in cols]: names collected so far in acc; raises at the
\* first column object without a name.
RECURSIVE ExtractFrom(_, _)
ExtractFrom(cols, acc) ==
  IF cols = <<>> THEN [raised |-> FALSE, names |-> acc]
  ELSE IF Head(cols) = NoNameAttr THEN [raised |-> TRUE, names |-> acc]
  ELSE ExtractFrom(Tail(cols), Append(acc, Head(cols)))

ExtractNames(cols) == ExtractFrom(cols, <<>>)

\* The try block of the column-name resolution: which location is read, and
\* what reading it gives.
\* Variant: the manifest location read before the direct one.
SchemaProbeManifestFirst(result) ==
  IF result.manifest.attr = "set"
    THEN [source |-> "manifest", ext |-> ExtractNames(result.manifest.columns)]
  ELSE IF result.schema.attr = "set"
    THEN [source |-> "schema", ext |-> ExtractNames(result.schema.columns)]
  ELSE IF result.manifest.attr = "schema_none"
    THEN [source |-> "manifest", ext |-> [raised |-> TRUE, names |-> <<>>]]
  ELSE [source |-> "unset", ext |-> [raised |-> FALSE, names |-> <<>>]]

SchemaProbe(result) ==
  IF result.schema.attr = "set"
    THEN [source |-> "schema", ext |-> ExtractNames(result.schema.columns)]
  ELSE IF result.manifest.attr \in {"no_schema", "schema_none", "set"}
    THEN IF result.manifest.attr = "no_schema"
           THEN [source |-> "unset", ext |-> [raised |-> FALSE, names |-> <<>>]]
         ELSE IF result.manifest.attr = "schema_none"
           THEN [source |-> "manifest", ext |-> [raised |-> TRUE, names |-> <<>>]]
         ELSE [source |-> "manifest", ext |-> ExtractNames(result.manifest.columns)]
  ELSE [source |-> "unset", ext |-> [raised |-> FALSE, names |-> <<>>]]

\* [f"col_{i}" for i in range(n)]
GenericNames(n) == [i \in 1..n |-> ColName(i - 1)]

\* The except branch: generic names from the first row. `partial` is what the
\* failed comprehension had collected; the assignment to `columns` never
\* happened, so the code does not see it.
\* Variant: the names extracted before the failure are kept.
FallbackKeepingPartial(result, partial) ==
  LET first_row == result.data_array[1]
  IN  IF ~first_row.iterable
        THEN [escaped |-> TRUE, columns |-> <<>>, source |-> "generic"]
        ELSE [escaped |-> FALSE,
              columns |-> [i \in 1..Len(first_row.vals) |->
                             IF i <= Len(partial) THEN partial[i] ELSE ColName(i - 1)],
              source |-> "generic"]

Fallback(result, partial) ==
  LET first_row == result.data_array[1]
  IN  IF ~first_row.iterable
        THEN [escaped |-> TRUE, columns |-> <<>>, source |-> "generic"]
        ELSE [escaped |-> FALSE,
              columns |-> GenericNames(Len(first_row.vals)),
              source |-> "generic"]

\* The value of `columns` before the row loop, the branch that assigned it,
\* and whether an exception left the except branch.
ResolveColumns(result) ==
  LET p == SchemaProbe(result)
  IN  IF p.ext.raised
        THEN Fallback(result, p.ext.names)
        ELSE [escaped |-> FALSE, columns |-> p.ext.names, source |-> p.source]

\* column_name = columns[i] if i < len(columns) else f"col_{i}", i 0-based;
\* here p = i + 1.
\* Variant: the comparison with len(columns) off by one.
ColumnNameOffByOne(columns, p) ==
  IF p < Len(columns) THEN columns[p] ELSE ColName(p - 1)

ColumnName(columns, p) ==
  IF p <= Len(columns) THEN columns[p] ELSE ColName(p - 1)

\* The inner loop over enumerate(row), from position p on.
RECURSIVE RowDictFrom(_, _, _, _)
RowDictFrom(vals, columns, p, row_dict) ==
  IF p > Len(vals) THEN row_dict
  ELSE RowDictFrom(vals, columns, p + 1,
                   DictSet(row_dict, ColumnName(columns, p), vals[p]))

RowDict(vals, columns) == RowDictFrom(vals, columns, 1, <<>>)

\* The outer loop over data_array, from row r on; enumerate(row) raises
\* TypeError on a row that cannot be iterated.
\* Variant: a row that cannot be iterated is skipped.
RECURSIVE ProcessRowsSkipping(_, _, _, _)
ProcessRowsSkipping(data_array, columns, r, result_data) ==
  IF r > Len(data_array) THEN [raised |-> FALSE, data |-> result_data]
  ELSE IF ~data_array[r].iterable
    THEN ProcessRowsSkipping(data_array, columns, r + 1, result_data)
  ELSE ProcessRowsSkipping(data_array, columns, r + 1,
                   Append(result_data, RowDict(data_array[r].vals, columns)))

\* Variant: each record is put in front of result_data.
RECURSIVE ProcessRowsReversed(_, _, _, _)
ProcessRowsReversed(data_array, columns, r, result_data) ==
  IF r > Len(data_array) THEN [raised |-> FALSE, data |-> result_data]
  ELSE IF ~data_array[r].iterable THEN [raised |-> TRUE, data |-> result_data]
  ELSE ProcessRowsReversed(data_array, columns, r + 1,
                   <<RowDict(data_array[r].vals, columns)>> \o result_data)

RECURSIVE ProcessRows(_, _, _, _)
ProcessRows(data_array, columns, r, result_data) ==
  IF r > Len(data_array) THEN [raised |-> FALSE, data |-> result_data]
  ELSE IF ~data_array[r].iterable THEN [raised |-> TRUE, data |-> result_data]
  ELSE ProcessRows(data_array, columns, r + 1,
                   Append(result_data, RowDict(data_array[r].vals, columns)))

\* Lines 241-272: result_data for a succeeded statement, with the locals the
\* handler ends with.
Normalize(result) ==
  IF result.kind # "data" \/ result.data_array = <<>>
    THEN [raised |-> FALSE, error |-> None, data |-> <<>>, columns |-> <<>>,
          source |-> "skipped"]
  ELSE LET rc == ResolveColumns(result)
       IN  IF rc.escaped
             THEN [raised |-> TRUE, error |-> "object of type 'NoneType' has no len()",
                   data |-> <<>>, columns |-> rc.columns, source |-> rc.source]
             ELSE LET pr == ProcessRows(result.data_array, rc.columns, 1, <<>>)
                  IN  [raised |-> pr.raised,
                       error |-> IF pr.raised THEN "'NoneType' object is not iterable"
                                 ELSE None,
                       data |-> pr.data, columns |-> rc.columns, source |-> rc.source]

\* ------------------------------------------------------------ the vendor SDK
SdkCalls ==
  {"current_user.me", "workspace.upload", "workspace.list", "workspace.export",
   "warehouses.list", "statement_execution.execute_statement", "clusters.list"}

\* sql.StatementState
StatementStates == {"PENDING", "RUNNING", "SUCCEEDED", "FAILED", "CANCELED", "CLOSED"}

Host == "https://workspace.example"

UserName == "user@example.com"

StatementId == "stmt-1"

\* What warehouses.list() yields (the ids), and the warehouse_id argument
\* (None when the caller gives none).
WarehouseLists == {<<>>, <<"wh-1", "wh-2">>}

WarehouseArgs == {None, "wh-arg"}

\* What workspace.list() yields: objects with path, object_type, language
\* (None when unset).
WorkspaceListings ==
  {<<>>,
   <<[path |-> "/Shared/nb", object_type |-> "NOTEBOOK", language |-> "PYTHON"],
     [path |-> "/Shared/dir", object_type |-> None, language |-> None]>>}

\* What workspace.export() returns: None, a response without content, a
\* base64 string, a string that is not base64, or bytes that are not base64.
ExportContents == {"none", "empty", "base64_str", "plain_str", "plain_bytes"}

\* What clusters.list() yields.
ClusterListings ==
  {<<>>,
   <<[cluster_id |-> "c-1", cluster_name |-> "etl", state |-> "RUNNING",
      node_type_id |-> "n-1"],
     [cluster_id |-> "c-2", cluster_name |-> "adhoc", state |-> None,
      node_type_id |-> "n-1"]>>}

Paths == {"/Shared/a", "/Shared/b"}

\* The StatementResponse of execute_statement: a succeeded statement carries
\* a result, any other state carries none and possibly a status.error.
Statement(state, error, result) ==
  [statement_id |-> StatementId, state |-> state, error |-> error, result |-> result]

Env(raises, warehouses, statement, objects, export, clusters) ==
  [raises |-> raises, warehouses |-> warehouses, statement |-> statement,
   objects |-> objects, export |-> export, clusters |-> clusters]

\* Results of at most one row without schema metadata, for the wrapper
\* operations.
OpsResults ==
  {ResultNone, ResultOf("no_data", <<>>, NoSchema, NoSchema),
   ResultOf("data", <<>>, NoSchema, NoSchema)}
    \cup {ResultOf("data", <<MakeRow(1, shape)>>, NoSchema, NoSchema) :
            shape \in RowShapes}

OpsStatements ==
  {Statement("SUCCEEDED", None, res) : res \in OpsResults}
    \cup {Statement(st, e, ResultNone) :
            st \in StatementStates \ {"SUCCEEDED"}, e \in {None, "syntax error"}}

\* ------------------------------------------------------------- return values
\* {'success': False, 'error': str(e)}
Failure(error) == [type |-> "dict", success |-> FALSE, error |-> error]

\* str(e) of the exception an SDK call raises.
SdkError(call) == call \o " failed"

Called(call, raised) == [call |-> call, raised |-> raised]

NoLocals == [columns |-> <<>>, source |-> "skipped"]

NotCalled == [type |-> "not called"]

\* ------------------------------------------------------- execute_sql_query
\* f"Query failed with state: {state}" plus ", Error: {message}" if
\* status.error is set.
ErrorMsg(statement) ==
  IF statement.error = None
    THEN "Query failed with state: " \o statement.state
    ELSE "Query failed with state: " \o statement.state
           \o ", Error: " \o statement.error

\* Lines 239-291: the return value for the statement the SDK answered.
\* Variant: every state but PENDING and RUNNING is treated as SUCCEEDED.
StatementReturnAnyFinished(statement, warehouse_id) ==
  IF statement.state \notin {"PENDING", "RUNNING"}
    THEN LET n == Normalize(statement.result)
         IN  [ret |-> IF n.raised
                        THEN Failure(n.error)
                        ELSE [type |-> "dict", success |-> TRUE, data |-> n.data,
                              statement_id |-> statement.statement_id,
                              warehouse_id |-> warehouse_id],
              local |-> [columns |-> n.columns, source |-> n.source]]
    ELSE [ret |-> [type |-> "dict", success |-> FALSE, error |-> ErrorMsg(statement),
                   statement_id |-> statement.statement_id],
          local |-> NoLocals]

StatementReturn(statement, warehouse_id) ==
  IF statement.state = "SUCCEEDED"
    THEN LET n == Normalize(statement.result)
         IN  [ret |-> IF n.raised
                        THEN Failure(n.error)
                        ELSE [type |-> "dict", success |-> TRUE, data |-> n.data,
                              statement_id |-> statement.statement_id,
                              warehouse_id |-> warehouse_id],
              local |-> [columns |-> n.columns, source |-> n.source]]
    ELSE [ret |-> [type |-> "dict", success |-> FALSE, error |-> ErrorMsg(statement),
                   statement_id |-> statement.statement_id],
          local |-> NoLocals]

\* Lines 232-291: execute_statement on the chosen warehouse, after the SDK
\* calls in `before`.
RunStatement(env, warehouse_id, before) ==
  IF "statement_execution.execute_statement" \in env.raises
    THEN [ret |-> Failure(SdkError("statement_execution.execute_statement")),
          calls |-> Append(before, Called("statement_execution.execute_statement", TRUE)),
          local |-> NoLocals]
    ELSE LET sr == StatementReturn(env.statement, warehouse_id)
         IN  [ret |-> sr.ret,
              calls |-> Append(before, Called("statement_execution.execute_statement", FALSE)),
              local |-> sr.local]

\* Lines 213-298: the whole handler.
ExecuteSqlQueryRun(env, warehouse_id) ==
  IF warehouse_id = None
    THEN IF "warehouses.list" \in env.raises
           THEN [ret |-> Failure(SdkError("warehouses.list")),
                 calls |-> <<Called("warehouses.list", TRUE)>>,
                 local |-> NoLocals]
         ELSE IF env.warehouses = <<>>
           THEN [ret |-> Failure("No SQL warehouses available"),
                 calls |-> <<Called("warehouses.list", FALSE)>>,
                 local |-> NoLocals]
         ELSE RunStatement(env, env.warehouses[1], <<Called("warehouses.list", FALSE)>>)
    ELSE RunStatement(env, warehouse_id, <<>>)

ExecuteSqlQuery ==
  \E warehouse_id \in WarehouseArgs :
    LET run == ExecuteSqlQueryRun(sdk, warehouse_id)
    IN  /\ lastOp' = [name |-> "execute_sql_query", arg |-> warehouse_id]
        /\ ret' = run.ret
        /\ calls' = run.calls
        /\ local' = run.local
        /\ UNCHANGED sdk

\* --------------------------------------------------------- test_connection
\* Variant: no except clause, the SDK exception leaves the method.
TestConnectionRaising(env) ==
  IF "current_user.me" \in env.raises
    THEN [ret |-> [type |-> "raised", error |-> SdkError("current_user.me")],
          calls |-> <<Called("current_user.me", TRUE)>>]
    ELSE [ret |-> [type |-> "dict", success |-> TRUE, user |-> UserName,
                   workspace_url |-> Host],
          calls |-> <<Called("current_user.me", FALSE)>>]

TestConnectionRun(env) ==
  IF "current_user.me" \in env.raises
    THEN [ret |-> Failure(SdkError("current_user.me")),
          calls |-> <<Called("current_user.me", TRUE)>>]
    ELSE [ret |-> [type |-> "dict", success |-> TRUE, user |-> UserName,
                   workspace_url |-> Host],
          calls |-> <<Called("current_user.me", FALSE)>>]

TestConnection ==
  LET run == TestConnectionRun(sdk)
  IN  /\ lastOp' = [name |-> "test_connection", arg |-> None]
      /\ ret' = run.ret
      /\ calls' = run.calls
      /\ local' = NoLocals
      /\ UNCHANGED sdk

\* ------------------- upload_file_to_workspace, create_notebook_from_template
\* Both encode the payload and hand it to workspace.upload; the payload is in
\* no return value, so it is left out. `what` is the message's first words.
UploadRun(env, path, what) ==
  IF "workspace.upload" \in env.raises
    THEN [ret |-> Failure(SdkError("workspace.upload")),
          calls |-> <<Called("workspace.upload", TRUE)>>]
    ELSE [ret |-> [type |-> "dict", success |-> TRUE, path |-> path,
                   message |-> what \o path],
          calls |-> <<Called("workspace.upload", FALSE)>>]

UploadFileToWorkspace ==
  \E workspace_path \in Paths :
    LET run == UploadRun(sdk, workspace_path, "File uploaded successfully to ")
    IN  /\ lastOp' = [name |-> "upload_file_to_workspace", arg |-> workspace_path]
        /\ ret' = run.ret
        /\ calls' = run.calls
        /\ local' = NoLocals
        /\ UNCHANGED sdk

CreateNotebookFromTemplate ==
  \E notebook_path \in Paths :
    LET run == UploadRun(sdk, notebook_path, "Notebook created successfully at ")
    IN  /\ lastOp' = [name |-> "create_notebook_from_template", arg |-> notebook_path]
        /\ ret' = run.ret
        /\ calls' = run.calls
        /\ local' = NoLocals
        /\ UNCHANGED sdk

\* ----------------------------------------------------- list_workspace_files
FileInfo(obj) ==
  [path |-> obj.path,
   object_type |-> IF obj.object_type # None THEN obj.object_type ELSE "unknown",
   language |-> obj.language]

ListWorkspaceFilesRun(env) ==
  IF "workspace.list" \in env.raises
    THEN [ret |-> [type |-> "list", items |-> <<>>],
          calls |-> <<Called("workspace.list", TRUE)>>]
    ELSE [ret |-> [type |-> "list",
                   items |-> [i \in 1..Len(env.objects) |-> FileInfo(env.objects[i])]],
          calls |-> <<Called("workspace.list", FALSE)>>]

ListWorkspaceFiles ==
  \E path \in Paths :
    LET run == ListWorkspaceFilesRun(sdk)
    IN  /\ lastOp' = [name |-> "list_workspace_files", arg |-> path]
        /\ ret' = run.ret
        /\ calls' = run.calls
        /\ local' = NoLocals
        /\ UNCHANGED sdk

\* ---------------------------------------------------- export_workspace_file
\* The bytes returned are named by the conversion that produced them:
\* b64decode of the content, the content itself (already bytes), or the
\* content string encoded as UTF-8.
ExportWorkspaceFileRun(env) ==
  IF "workspace.export" \in env.raises
    THEN [ret |-> [type |-> "NoneType"],
          calls |-> <<Called("workspace.export", TRUE)>>]
    ELSE [ret |-> CASE env.export \in {"none", "empty"} -> [type |-> "NoneType"]
                    [] env.export = "base64_str" -> [type |-> "bytes", from |-> "b64decode"]
                    [] env.export = "plain_bytes" -> [type |-> "bytes", from |-> "content"]
                    [] OTHER -> [type |-> "bytes", from |-> "utf-8"],
          calls |-> <<Called("workspace.export", FALSE)>>]

ExportWorkspaceFile ==
  \E workspace_path \in Paths :
    LET run == ExportWorkspaceFileRun(sdk)
    IN  /\ lastOp' = [name |-> "export_workspace_file", arg |-> workspace_path]
        /\ ret' = run.ret
        /\ calls' = run.calls
        /\ local' = NoLocals
        /\ UNCHANGED sdk

\* ------------------------------------------------------------- get_clusters
ClusterInfo(cluster) ==
  [cluster_id |-> cluster.cluster_id,
   cluster_name |-> cluster.cluster_name,
   state |-> IF cluster.state # None THEN cluster.state ELSE "unknown",
   node_type_id |-> cluster.node_type_id]

GetClustersRun(env) ==
  IF "clusters.list" \in env.raises
    THEN [ret |-> [type |-> "list", items |-> <<>>],
          calls |-> <<Called("clusters.list", TRUE)>>]
    ELSE [ret |-> [type |-> "list",
                   items |-> [i \in 1..Len(env.clusters) |-> ClusterInfo(env.clusters[i])]],
          calls |-> <<Called("clusters.list", FALSE)>>]

GetClusters ==
  LET run == GetClustersRun(sdk)
  IN  /\ lastOp' = [name |-> "get_clusters", arg |-> None]
      /\ ret' = run.ret
      /\ calls' = run.calls
      /\ local' = NoLocals
      /\ UNCHANGED sdk

\* ------------------------------------------------------------ specifications
InitVars ==
  /\ lastOp = [name |-> "none", arg |-> None]
  /\ ret = NotCalled
  /\ calls = <<>>
  /\ local = NoLocals

\* The normaliser's environments: every result shape of a succeeded
\* statement, no SDK call raising.
InitSql ==
  /\ \E k \in ResultKinds, d \in DataArrays, s \in DirectSchemas, m \in Manifests :
       /\ ResultShape(k, d, s, m)
       /\ sdk = Env({}, <<"wh-1", "wh-2">>,
                    Statement("SUCCEEDED", None, ResultOf(k, d, s, m)),
                    <<>>, "none", <<>>)
  /\ InitVars

NextSql == ExecuteSqlQuery

SpecSql == InitSql /\ [][NextSql]_vars

\* The wrapper operations' environments: at most one SDK call raises, every
\* statement state.
Init ==
  /\ \E r \in {{}} \cup {{call} : call \in SdkCalls},
        w \in WarehouseLists, s \in OpsStatements, o \in WorkspaceListings,
        x \in ExportContents, c \in ClusterListings :
       sdk = Env(r, w, s, o, x, c)
  /\ InitVars

Next ==
  \/ TestConnection
  \/ UploadFileToWorkspace
  \/ CreateNotebookFromTemplate
  \/ ListWorkspaceFiles
  \/ ExportWorkspaceFile
  \/ ExecuteSqlQuery
  \/ GetClusters

Spec == Init /\ [][Next]_vars

\* -------------------------------------------------------------- properties
\* What the properties below read from a state.
SqlDone == lastOp.name = "execute_sql_query"

InputResult == sdk.statement.result

InputRows ==
  IF InputResult.kind = "data" THEN InputResult.data_array ELSE <<>>

ExecutedOk ==
  \E i \in 1..Len(calls) :
    calls[i] = Called("statement_execution.execute_statement", FALSE)

ExecuteAttempted ==
  \E i \in 1..Len(calls) : calls[i].call = "statement_execution.execute_statement"

SdkRaised == \E i \in 1..Len(calls) : calls[i].raised

ReturnsData == ret.type = "dict" /\ "data" \in DOMAIN ret

ReturnsFailure ==
  /\ ret.type = "dict"
  /\ "success" \in DOMAIN ret
  /\ ret.success = FALSE

AllRowsIterable == \A r \in 1..Len(InputRows) : InputRows[r].iterable

WellFormed(cols) == NoNameAttr \notin Range(cols)

DirectSupplied == InputResult.schema.attr = "set"

ManifestSupplied == InputResult.manifest.attr = "set"

\* col_0 ... col_{n-1}, written out independently of the model's ColName.
Synthetic(n) == [i \in 1..n |-> "col_" \o ToString(i - 1)]

\* Column-name extraction raises at the location the code reads.
ExtractionRaises ==
  \/ DirectSupplied /\ ~WellFormed(InputResult.schema.columns)
  \/ /\ ~DirectSupplied
     /\ \/ InputResult.manifest.attr = "schema_none"
        \/ ManifestSupplied /\ ~WellFormed(InputResult.manifest.columns)

\* C2: the data list of a succeeded statement has exactly one record per input
\* row, in input order (record r holds only values of row r, and row r's last
\* value); an empty or absent row sequence gives the empty list.
C2_OneRecordPerRowInOrder ==
  (SqlDone /\ ReturnsData) =>
    /\ Len(ret.data) = Len(InputRows)
    /\ \A r \in 1..Len(ret.data) :
         LET vals == InputRows[r].vals
             got == Range(DictValues(ret.data[r]))
         IN  /\ InputRows[r].iterable
             /\ got \subseteq {Cell(r, p) : p \in 1..Len(vals)}
             /\ Len(vals) > 0 => Cell(r, Len(vals)) \in got

C2_Witness ==
  /\ SqlDone /\ ReturnsData
  /\ Len(InputRows) = 2
  /\ Len(InputRows[1].vals) = 2 /\ Len(InputRows[2].vals) = 1
  /\ DirectSupplied /\ InputResult.schema.columns = <<"id", "col_1">>
  /\ Len(ret.data) = 2

\* C3: every record has as many keys as its row has values, whatever the
\* resolved column names are.
C3_KeyCountEqualsArity ==
  (SqlDone /\ ReturnsData) =>
    \A r \in 1..Len(ret.data) : Len(ret.data[r]) = Len(InputRows[r].vals)

\* C4: with a direct schema of valid column names whose length is every row's
\* arity, each record's keys in order are the schema's names and the value
\* under the i-th name is the row's i-th value.
C4_KeysAndValuesFollowSchema ==
  ( /\ SqlDone /\ ReturnsData
    /\ InputRows # <<>>
    /\ DirectSupplied /\ WellFormed(InputResult.schema.columns)
    /\ \A r \in 1..Len(InputRows) :
         Len(InputRows[r].vals) = Len(InputResult.schema.columns) ) =>
    \A r \in 1..Len(ret.data) :
      /\ DictKeys(ret.data[r]) = InputResult.schema.columns
      /\ DictValues(ret.data[r]) = InputRows[r].vals

\* C5 as stated: with no schema at either location every record's keys are
\* col_0 ... col_{n-1}, n the arity of the first row.
C5_KeysFromFirstRowArity ==
  ( /\ SqlDone /\ ReturnsData
    /\ InputRows # <<>>
    /\ ~DirectSupplied /\ ~ManifestSupplied ) =>
    \A r \in 1..Len(ret.data) :
      DictKeys(ret.data[r]) = Synthetic(Len(InputRows[1].vals))

\* C5 amended: with no schema at either location every record's keys are
\* col_0 ... col_{m-1}, m the arity of that record's own row.
C5_KeysFromOwnRowArity ==
  ( /\ SqlDone /\ ReturnsData
    /\ InputRows # <<>>
    /\ ~DirectSupplied /\ ~ManifestSupplied ) =>
    /\ Len(ret.data) = Len(InputRows)
    /\ \A r \in 1..Len(ret.data) :
         DictKeys(ret.data[r]) = Synthetic(Len(InputRows[r].vals))

C5_Witness ==
  /\ SqlDone /\ ReturnsData
  /\ ~DirectSupplied /\ ~ManifestSupplied
  /\ Len(InputRows) = 2
  /\ Len(InputRows[1].vals) = 1 /\ Len(InputRows[2].vals) = 2
  /\ DictKeys(ret.data[2]) = <<"col_0", "col_1">>

\* C6: the direct schema's names are used whenever it is supplied, even with
\* a manifest schema present; the manifest's names are used exactly when the
\* direct schema is not supplied and the manifest's schema is there to read;
\* generic or per-position synthetic names are all there is only when no
\* location yielded names.
C6_ResolutionPriority ==
  (SqlDone /\ ReturnsData /\ InputRows # <<>>) =>
    /\ (DirectSupplied /\ WellFormed(InputResult.schema.columns)) =>
         /\ local.source = "schema"
         /\ local.columns = InputResult.schema.columns
    /\ local.source = "manifest" <=>
         /\ ~DirectSupplied
         /\ ManifestSupplied /\ WellFormed(InputResult.manifest.columns)
    /\ local.source = "manifest" => local.columns = InputResult.manifest.columns
    /\ local.source \in {"generic", "unset"} =>
         /\ ~(DirectSupplied /\ WellFormed(InputResult.schema.columns))
         /\ ~(~DirectSupplied /\ ManifestSupplied
                /\ WellFormed(InputResult.manifest.columns))

C6_Witness ==
  /\ SqlDone /\ ReturnsData
  /\ InputResult.schema = [attr |-> "set", columns |-> <<"id">>]
  /\ InputResult.manifest = [attr |-> "set", columns |-> <<"col_1">>]
  /\ Len(InputRows) = 1 /\ Len(InputRows[1].vals) = 1
  /\ ret.data = << << <<"id", Cell(1, 1)>> >> >>

\* C7: when column-name extraction raises and every row is readable, the call
\* succeeds with one record per row, `columns` is exactly col_0 ... col_{n-1}
\* for the first row's arity n, and every key of every record is the synthetic
\* name of its position: no extracted schema name survives.
C7_SchemaFailureFallsBack ==
  ( /\ SqlDone /\ ExecutedOk
    /\ sdk.statement.state = "SUCCEEDED"
    /\ InputRows # <<>> /\ AllRowsIterable
    /\ ExtractionRaises ) =>
    /\ ReturnsData /\ ret.success = TRUE
    /\ Len(ret.data) = Len(InputRows)
    /\ local.columns = Synthetic(Len(InputRows[1].vals))
    /\ \A r \in 1..Len(ret.data) :
         DictKeys(ret.data[r]) = Synthetic(Len(InputRows[r].vals))

C7_Witness ==
  /\ SqlDone /\ ReturnsData
  /\ InputResult.schema = [attr |-> "set", columns |-> <<"id", NoNameAttr>>]
  /\ Len(InputRows) = 1 /\ Len(InputRows[1].vals) = 2
  /\ DictKeys(ret.data[1]) = <<"col_0", "col_1">>

\* C8: when some row of a succeeded statement cannot be iterated, the call
\* returns success=False with an error and no data at all.
C8_UnreadableRowFailsWhole ==
  ( /\ SqlDone /\ ExecutedOk
    /\ sdk.statement.state = "SUCCEEDED"
    /\ ~AllRowsIterable ) =>
    /\ ReturnsFailure
    /\ "error" \in DOMAIN ret
    /\ "data" \notin DOMAIN ret

C8_Witness ==
  /\ SqlDone /\ ExecutedOk
  /\ Len(InputRows) = 2
  /\ InputRows[1].iterable /\ Len(InputRows[1].vals) = 2
  /\ ~InputRows[2].iterable
  /\ ReturnsFailure /\ ~ReturnsData

\* C9: a produced record, normalised again as a single row with its own keys
\* as the direct schema, comes back unchanged.
Renormalized(d) ==
  Normalize([kind |-> "data",
             data_array |-> <<[iterable |-> TRUE, vals |-> DictValues(d)]>>,
             schema |-> [attr |-> "set", columns |-> DictKeys(d)],
             manifest |-> NoSchema])

C9_Idempotent ==
  (SqlDone /\ ReturnsData) =>
    \A r \in 1..Len(ret.data) :
      /\ ~Renormalized(ret.data[r]).raised
      /\ Renormalized(ret.data[r]).data = <<ret.data[r]>>

C9_Witness ==
  /\ SqlDone /\ ReturnsData
  /\ Len(ret.data) = 1
  /\ DictKeys(ret.data[1]) = <<"col_1", "id">>
  /\ Renormalized(ret.data[1]).data = ret.data

\* The parts of C10 that do not depend on when success is returned.
NamesState(error, statement) ==
  \/ error = "Query failed with state: " \o statement.state
  \/ /\ statement.error # None
     /\ error = "Query failed with state: " \o statement.state
                  \o ", Error: " \o statement.error

C10_Rest ==
  /\ (ret.type = "dict" /\ ret.success = TRUE) =>
       /\ ReturnsData
       /\ ret.statement_id = sdk.statement.statement_id
       /\ ret.warehouse_id =
            (IF lastOp.arg # None THEN lastOp.arg ELSE sdk.warehouses[1])
  /\ (ExecutedOk /\ sdk.statement.state # "SUCCEEDED") =>
       /\ ReturnsFailure
       /\ "statement_id" \in DOMAIN ret
       /\ ret.statement_id = sdk.statement.statement_id
       /\ NamesState(ret.error, sdk.statement)
       /\ ~ReturnsData
  /\ (lastOp.arg = None /\ sdk.warehouses = <<>>) =>
       /\ ReturnsFailure
       /\ ~ExecuteAttempted

\* C10 as stated: success=True exactly when the statement was executed and is
\* SUCCEEDED; any other state gives success=False with statement_id, an error
\* naming the state and no data; no warehouse_id and no warehouses gives
\* success=False with no statement executed.
C10_SuccessIffSucceeded ==
  SqlDone =>
    /\ ret.type = "dict"
    /\ ret.success = TRUE <=> (ExecutedOk /\ sdk.statement.state = "SUCCEEDED")
    /\ C10_Rest

\* C10 amended: success=True exactly when the statement was executed, is
\* SUCCEEDED and every row of its result can be iterated; the rest as stated.
C10_SuccessIffSucceededAndReadable ==
  SqlDone =>
    /\ ret.type = "dict"
    /\ ret.success = TRUE <=>
         (ExecutedOk /\ sdk.statement.state = "SUCCEEDED" /\ AllRowsIterable)
    /\ C10_Rest

C10_Witness ==
  /\ SqlDone /\ ExecutedOk
  /\ sdk.statement.state = "PENDING"
  /\ ReturnsFailure
  /\ ret.statement_id = StatementId
  /\ ret.error = "Query failed with state: PENDING"

\* C1 as stated: whenever the SDK call of an operation raises, the operation
\* returns a dict whose success flag is False.
C1_FailureIsAlwaysADict ==
  (lastOp.name # "none" /\ SdkRaised) => ReturnsFailure

\* C1 amended: whenever the SDK call of an operation raises, the operation
\* does not raise; test_connection, upload_file_to_workspace,
\* create_notebook_from_template and execute_sql_query return a dict with
\* success=False and an error, list_workspace_files and get_clusters return
\* the empty list, export_workspace_file returns None.
C1_FailureByOperation ==
  (lastOp.name # "none" /\ SdkRaised) =>
    /\ ret.type # "raised"
    /\ lastOp.name \in {"test_connection", "upload_file_to_workspace",
                        "create_notebook_from_template", "execute_sql_query"} =>
         ReturnsFailure /\ "error" \in DOMAIN ret
    /\ lastOp.name \in {"list_workspace_files", "get_clusters"} =>
         ret = [type |-> "list", items |-> <<>>]
    /\ lastOp.name = "export_workspace_file" => ret = [type |-> "NoneType"]

C1_Witness ==
  /\ lastOp.name = "list_workspace_files"
  /\ SdkRaised
  /\ sdk.objects # <<>>
  /\ ret = [type |-> "list", items |-> <<>>]
====
